---- MODULE Spec2Model ----
(***************************************************************************)
(* Model of the offline media synchronisation client, mediasync.js.        *)
(*                                                                         *)
(* The program is single threaded and advances through completion          *)
(* callbacks of asynchronous calls on LocalAssetManager and apiClient.     *)
(* Every action below is the completion (success or failure) of one such   *)
(* call together with everything the callback runs synchronously up to     *)
(* the next asynchronous call.  `pc` names the call the main chain of a    *)
(* sync run is waiting for; the removal chains started by afterSyncData    *)
(* keep their own position in rmIdx, because afterSyncData resolves the    *)
(* deferred of syncData without waiting for them.                          *)
(*                                                                         *)
(* A deferred is settled once: a resolve or reject of a settled deferred   *)
(* has no effect, and done/fail callbacks run when the deferred settles.   *)
(* An identifier that no scope of the file declares raises ReferenceError  *)
(* when it is read; an exception that leaves a callback ends the chain of  *)
(* that callback, whose deferreds then stay pending.                       *)
(*                                                                         *)
(* Spec is a run of sync.  SpecAccess runs syncUserItemAccess and          *)
(* SpecParts runs downloadImage and getSubtitles as functions, for every   *)
(* argument: a run of sync does not reach them.                            *)
(* SpecOffline runs reportOfflineActions while the application queues      *)
(* offline actions.  SpecChapters runs RefreshChapterImages of              *)
(* EncodingManager.cs, one action for each iteration of its loop.          *)
(***************************************************************************)
EXTENDS Integers, Sequences, FiniteSets, TLC

\* ------------------------------------------------------------------------
\* Bounds of the model

MaxRemove == 2      \* longest ItemIdsToRemove list a reconciliation returns
MaxJobs == 2        \* longest list of ready job items
MaxAccess == 2      \* longest list of user ids in an access list
MaxCalls == 2       \* calls of downloadImage in a row
MaxFiles == 2       \* most subtitle files of a job item
MaxChapters == 3    \* most chapters of a video

ItemIds == {"a", "b"}
UserIds == {"u1", "u2"}
Actions == {"x", "y"}
Ticks == {0, 1}                     \* start positions of chapters
RunTimes == 0..2                    \* video.RunTimeTicks ?? 0
LateActions == {"z"}                \* offline actions queued while a run is under way
ImageKeys == {"k1", "k2", "k3"}     \* triples (server id, item id, image tag)

\* sequences over S of length at most n
RECURSIVE SeqsUpTo(_, _)
SeqsUpTo(S, n) ==
    IF n = 0 THEN {<<>>}
    ELSE LET shorter == SeqsUpTo(S, n - 1)
         IN  shorter \cup {Append(s, x) : s \in {t \in shorter : Len(t) = n - 1}, x \in S}

Range(s) == {s[i] : i \in 1..Len(s)}

NoDup(s) == \A i, j \in 1..Len(s) : i # j => s[i] # s[j]

\* access lists: user ids without repetition, in any order
AccessLists == {s \in SeqsUpTo(UserIds, MaxAccess) : NoDup(s)}

\* the value of an item id without record; no access list equals it
Absent == <<"absent">>

\* ------------------------------------------------------------------------
\* State

VARIABLES
    pc,             \* the call the main chain waits for
    syncP,          \* deferred of sync: "none", "pending", "resolved", "rejected"
    phaseP,         \* deferred of each phase, same values
    started,        \* phases in the order they were started
    failedCall,     \* the call whose failure rejected the deferred of sync
    queue,          \* local store: offline actions queued for the server
    batch,          \* `actions` read by reportOfflineActions
    uploads,        \* calls of apiClient.reportOfflineActions: batch and outcome
    deleted,        \* batches handed to LocalAssetManager.deleteOfflineActions
    store,          \* local store: item id -> UserIdsWithAccess, or Absent
    localIds,       \* LocalItemIds sent by each pass
    rmList,         \* ItemIdsToRemove of each pass
    rmIdx,          \* removal chain of each pass: 0 not started, i in flight, Len+1 finished
    rmLog,          \* outcome of every removal attempt of each pass, in order
    userAccess,     \* ItemUserAccess returned to the second pass
    jobItems,       \* list returned by getReadySyncItems
    jobIdx,         \* job item being processed (index into jobItems)
    localItem,      \* the local item of the job item in progress
    fetchedIds,     \* ids persisted by the fetch phase
    imgSlots,       \* getNextImage: image slots evaluated for the job item in progress
    transferred,    \* job items passed to apiClient.reportSyncJobItemTransferred
    accIds,         \* syncUserItemAccess: the keys of ItemUserAccess, in for-in order
    accIdx,         \* syncNextUserAccessForItem: the item in progress, Len+1 at the end
    accState,       \* syncUserItemAccess: "idle", "require", "thrown", "resolved"
    accWrites,      \* item ids passed to addOrUpdateLocalItem by syncUserAccessForItem
    images,         \* local store: the image triples held
    imgArg,         \* downloadImage: the triple of the call in progress
    imgState,       \* downloadImage: "idle", the call awaited, or how its deferred ended
    imgDownloads,   \* triples passed to LocalAssetManager.downloadImage, in order
    imgCalls,       \* number of calls of downloadImage so far
    subItem,        \* getSubtitles: the job item of the call
    subState,       \* getSubtitles: "idle", "require", "thrown", "resolved"
    chOptions,      \* RefreshChapterImages: the options and what it reads of the video
    chInput,        \* options.Chapters as passed in
    chapters,       \* options.Chapters, whose ImagePath the loop assigns
    chIdx,          \* the chapter the foreach loop is at
    chState,        \* "idle", "loop", "SaveChapters", "done", "threw"
    chSuccess,      \* the local success
    changesMade,    \* the local changesMade
    currentImages,  \* the image files found when the call began
    imageFiles,     \* the image files of the chapters directory
    chLog,          \* the loop iterations run: what became of each chapter
    chResult        \* "none", the value returned ("true", "false"), or "threw"

orchVars == <<pc, syncP, phaseP, started, failedCall>>
roaVars == <<queue, batch, uploads, deleted>>
recVars == <<localIds, rmList, rmIdx, rmLog, userAccess>>
fetchVars == <<jobItems, jobIdx, localItem, fetchedIds, imgSlots, transferred>>
accVars == <<accIds, accIdx, accState, accWrites>>

chVars == <<chOptions, chInput, chapters, chIdx, chState, chSuccess, changesMade,
            currentImages, imageFiles, chLog, chResult>>

partVars == <<images, imgArg, imgState, imgDownloads, imgCalls, subItem, subState, chVars>>

vars == <<orchVars, roaVars, store, recVars, fetchVars, accVars, partVars>>

Phases == <<"reportOfflineActions", "syncData1", "getNewMedia", "syncData2">>

SyncDataPhase(p) == IF p = 1 THEN "syncData1" ELSE "syncData2"

\* ------------------------------------------------------------------------
\* Local store (LocalAssetManager)

GetOfflineActions == queue

DeleteOfflineActions(q, actions) == q \ actions

GetServerItemIds == {id \in ItemIds : store[id] # Absent}

RemoveLocalItem(s, id) == [s EXCEPT ![id] = Absent]

AddOrUpdateLocalItem(s, item) == [s EXCEPT ![item.Id] = item.UserIdsWithAccess]

\* a new local item mirrors the library item; it carries no access list yet
CreateLocalItem(libraryItemId) == [Id |-> libraryItemId, UserIdsWithAccess |-> <<>>]

NoLocalItem == [Id |-> "none", UserIdsWithAccess |-> <<>>]

HasImage(im, key) == key \in im

\* a downloaded image is stored under its triple
StoreImage(im, key) == im \cup {key}

\* ------------------------------------------------------------------------
\* Server answers

RemoveLists == SeqsUpTo(ItemIds, MaxRemove)

\* ItemUserAccess: item id -> list of user ids, Absent for an id without entry;
\* the server reports no entry at all, or one user for every item
AccessMaps == {[id \in ItemIds |-> Absent], [id \in ItemIds |-> <<"u1">>]}

JobItem == [Id : ItemIds]

JobLists == SeqsUpTo(JobItem, MaxJobs)

\* what getSubtitles reads of a job item: the number of media sources of the
\* library item and, for each additional file of type Subtitles in order,
\* whether a stream of type Subtitle of the first media source has its index
SubtitleJobs == [MediaSources : 0..1, Files : SeqsUpTo(BOOLEAN, MaxFiles)]

NoSubtitleJob == [MediaSources |-> 0, Files |-> <<>>]

\* ------------------------------------------------------------------------
\* Chapter images (EncodingManager)

\* a chapter without image: ImagePath null or empty
NoPath == -1

\* GetChapterImagePath: the file name is made of the modification date of the
\* video and the start position, so for one video the path stands for the
\* start position; paths are compared ignoring case and are all of one case
ChapterImagePath(startPositionTicks) == startPositionTicks

ChapterInfo == [StartPositionTicks : Ticks, ImagePath : {NoPath} \cup Ticks]

ChapterLists == SeqsUpTo(ChapterInfo, MaxChapters)

\* ExtractImages and SaveChapters of the options; of the video: whether
\* IsEligibleForChapterImageExtraction holds, whether VideoType is HdDvd, Iso
\* or BluRay, and RunTimeTicks ?? 0
ChapterOptions ==
    [ExtractImages : BOOLEAN, SaveChapters : BOOLEAN, Eligible : BOOLEAN,
     Disc : BOOLEAN, RunTimeTicks : RunTimes]

NoChapterOptions ==
    [ExtractImages |-> FALSE, SaveChapters |-> FALSE, Eligible |-> FALSE,
     Disc |-> FALSE, RunTimeTicks |-> 0]

\* no video is given to RefreshChapterImages
NoChapterCall ==
    /\ chOptions = NoChapterOptions
    /\ chInput = <<>>
    /\ chapters = <<>>
    /\ imageFiles = {}

\* ------------------------------------------------------------------------

InitSync ==
    /\ syncP = "none"
    /\ phaseP = [ph \in Range(Phases) |-> "none"]
    /\ started = <<>>
    /\ failedCall = "none"
    /\ batch = {}
    /\ uploads = <<>>
    /\ deleted = <<>>
    /\ localIds = [p \in 1..2 |-> {}]
    /\ rmList = [p \in 1..2 |-> <<>>]
    /\ rmIdx = [p \in 1..2 |-> 0]
    /\ rmLog = [p \in 1..2 |-> <<>>]
    /\ jobItems = <<>>
    /\ jobIdx = 0
    /\ localItem = NoLocalItem
    /\ fetchedIds = {}
    /\ imgSlots = <<>>
    /\ transferred = <<>>
    /\ accIds = <<>>
    /\ accIdx = 0
    /\ accState = "idle"
    /\ accWrites = <<>>
    /\ imgArg = "none"
    /\ imgState = "idle"
    /\ imgDownloads = <<>>
    /\ imgCalls = 0
    /\ subItem = NoSubtitleJob
    /\ subState = "idle"
    /\ chIdx = 0
    /\ chState = "idle"
    /\ chSuccess = TRUE
    /\ changesMade = FALSE
    /\ currentImages = {}
    /\ chLog = <<>>
    /\ chResult = "none"

Init ==
    /\ InitSync
    /\ NoChapterCall
    /\ images = {}
    /\ pc = "idle"
    /\ queue \in {{}, Actions}
    /\ store \in [ItemIds -> {Absent, <<"u1", "u2">>}]
    /\ userAccess = [id \in ItemIds |-> Absent]

\* ------------------------------------------------------------------------
\* Deferreds and the chain of sync

\* resolve() or reject() of a deferred: only a pending deferred changes
Settle(ph, phase, v) == [ph EXCEPT ![phase] = IF @ = "pending" THEN v ELSE @]

Orch(p, s, ph, st, fc) ==
    /\ pc' = p
    /\ syncP' = s
    /\ phaseP' = ph
    /\ started' = st
    /\ failedCall' = fc

\* the chain waits for another call of the same phase
Await(call) == Orch(call, syncP, phaseP, started, failedCall)

\* the first asynchronous call of a phase
FirstCall(phase) ==
    CASE phase = "reportOfflineActions" -> "getOfflineActions"
      [] phase \in {"syncData1", "syncData2"} -> "getServerItemIds"
      [] phase = "getNewMedia" -> "getReadySyncItems"

\* variant: the done callback of the first pass starts the second pass
NextPhaseSkipsFetch(phase) ==
    CASE phase = "reportOfflineActions" -> "syncData1"
      [] phase = "syncData1" -> "syncData2"
      [] phase = "getNewMedia" -> "syncData2"
      [] phase = "syncData2" -> "none"

\* the phase the done callback of a phase starts
NextPhase(phase) ==
    CASE phase = "reportOfflineActions" -> "syncData1"
      [] phase = "syncData1" -> "getNewMedia"
      [] phase = "getNewMedia" -> "syncData2"
      [] phase = "syncData2" -> "none"

\* the deferred of a phase is resolved: the done callback registered by sync
\* starts the next phase, the last one resolves the deferred of sync
ResolvePhase(phase) ==
    LET ph == Settle(phaseP, phase, "resolved")
        nxt == NextPhase(phase)
    IN  IF nxt = "none"
        THEN Orch("done", "resolved", ph, started, failedCall)
        ELSE Orch(FirstCall(nxt), syncP, [ph EXCEPT ![nxt] = "pending"],
                  Append(started, nxt), failedCall)

\* variant: the fail callback of a phase goes on like its done callback
RejectPhaseContinues(phase, call) ==
    LET ph == Settle(phaseP, phase, "rejected")
        nxt == NextPhase(phase)
    IN  IF nxt = "none"
        THEN Orch("done", "resolved", ph, started, call)
        ELSE Orch(FirstCall(nxt), syncP, [ph EXCEPT ![nxt] = "pending"],
                  Append(started, nxt), call)

\* getOnFail(deferred) of a phase, then getOnFail(deferred) of sync
RejectPhase(phase, call) ==
    Orch("done", "rejected", Settle(phaseP, phase, "rejected"), started, call)

\* the reconciliation pass in progress
CurPass == IF phaseP["syncData2"] = "none" THEN 1 ELSE 2

Sync ==
    /\ pc = "idle"
    /\ Orch(FirstCall(Phases[1]), "pending",
            [phaseP EXCEPT ![Phases[1]] = "pending"], <<Phases[1]>>, failedCall)
    /\ UNCHANGED <<partVars, roaVars, store, recVars, fetchVars, accVars>>

\* ------------------------------------------------------------------------
\* reportOfflineActions

\* variant: an empty batch is uploaded like any other
GetOfflineActionsDoneUploadsEmpty ==
    /\ pc = "getOfflineActions"
    /\ batch' = GetOfflineActions
    /\ Await("reportOfflineActions")
    /\ UNCHANGED <<partVars, queue, uploads, deleted, store, recVars, fetchVars, accVars>>

GetOfflineActionsDone ==
    /\ pc = "getOfflineActions"
    /\ batch' = GetOfflineActions
    /\ IF batch' = {}
       THEN ResolvePhase("reportOfflineActions")
       ELSE Await("reportOfflineActions")
    /\ UNCHANGED <<partVars, queue, uploads, deleted, store, recVars, fetchVars, accVars>>

GetOfflineActionsFail ==
    /\ pc = "getOfflineActions"
    /\ RejectPhase("reportOfflineActions", "getOfflineActions")
    /\ UNCHANGED <<partVars, roaVars, store, recVars, fetchVars, accVars>>

\* the done callback calls LocalAssetManager.deleteOfflineActions(actions)
ReportOfflineActionsDone ==
    /\ pc = "reportOfflineActions"
    /\ uploads' = Append(uploads, [batch |-> batch, ok |-> TRUE])
    /\ deleted' = Append(deleted, batch)
    /\ Await("deleteOfflineActions")
    /\ UNCHANGED <<partVars, queue, batch, store, recVars, fetchVars, accVars>>

\* variant: the batch is deleted although the upload failed
ReportOfflineActionsFailDeletes ==
    /\ pc = "reportOfflineActions"
    /\ uploads' = Append(uploads, [batch |-> batch, ok |-> FALSE])
    /\ queue' = DeleteOfflineActions(queue, batch)
    /\ RejectPhase("reportOfflineActions", "reportOfflineActions")
    /\ UNCHANGED <<partVars, batch, deleted, store, recVars, fetchVars, accVars>>

ReportOfflineActionsFail ==
    /\ pc = "reportOfflineActions"
    /\ uploads' = Append(uploads, [batch |-> batch, ok |-> FALSE])
    /\ RejectPhase("reportOfflineActions", "reportOfflineActions")
    /\ UNCHANGED <<partVars, queue, batch, deleted, store, recVars, fetchVars, accVars>>

\* variant: the queue of that moment is deleted, not the batch uploaded
DeleteOfflineActionsDoneClearsQueue ==
    /\ pc = "deleteOfflineActions"
    /\ queue' = DeleteOfflineActions(queue, queue)
    /\ ResolvePhase("reportOfflineActions")
    /\ UNCHANGED <<partVars, batch, uploads, deleted, store, recVars, fetchVars, accVars>>

DeleteOfflineActionsDone ==
    /\ pc = "deleteOfflineActions"
    /\ queue' = DeleteOfflineActions(queue, batch)
    /\ ResolvePhase("reportOfflineActions")
    /\ UNCHANGED <<partVars, batch, uploads, deleted, store, recVars, fetchVars, accVars>>

\* a failed deletion may have deleted part of the batch
DeleteOfflineActionsFail ==
    /\ pc = "deleteOfflineActions"
    /\ \E part \in SUBSET batch :
          /\ part # batch
          /\ queue' = DeleteOfflineActions(queue, part)
    /\ RejectPhase("reportOfflineActions", "deleteOfflineActions")
    /\ UNCHANGED <<partVars, batch, uploads, deleted, store, recVars, fetchVars, accVars>>

\* the application queues another offline action in the local store
EnqueueOfflineAction ==
    /\ \E a \in LateActions :
          /\ a \notin queue
          /\ queue' = queue \cup {a}
    /\ UNCHANGED <<orchVars, batch, uploads, deleted, store, recVars, fetchVars, accVars,
                   partVars>>

\* ------------------------------------------------------------------------
\* syncUserItemAccess

\* the orders in which for-in may enumerate the keys of ItemUserAccess
KeyOrders(acc) ==
    LET keys == {id \in ItemIds : acc[id] # Absent}
    IN  {s \in SeqsUpTo(keys, Cardinality(keys)) : NoDup(s) /\ Len(s) = Cardinality(keys)}

\* syncNextUserAccessForItem(itemIds, index, ...) with the 1-based index i:
\* syncUserAccessForItem hands its body to require and returns its promise
SyncNextUserAccessForItem(ids, i) ==
    /\ accIdx' = i
    /\ accState' = IF i > Len(ids) THEN "resolved" ELSE "require"

SyncUserItemAccess(acc) ==
    /\ \E ids \in KeyOrders(acc) :
          /\ accIds' = ids
          /\ SyncNextUserAccessForItem(ids, 1)
    /\ accWrites' = accWrites

\* the require callback of syncUserAccessForItem evaluates the arguments of
\* LocalAssetManager.getLocalItem(itemId, serverId); no scope of the file
\* declares serverId, so the ReferenceError leaves the callback before any
\* call on the local store and the deferred is never settled
SyncUserAccessForItemRequire ==
    /\ accState = "require"
    /\ accState' = "thrown"
    /\ UNCHANGED <<partVars, orchVars, roaVars, store, recVars, fetchVars, accIds, accIdx,
                   accWrites>>

\* the call of syncUserItemAccess on a reconciliation result
SyncUserItemAccessCall ==
    /\ accState = "idle"
    /\ SyncUserItemAccess(userAccess)
    /\ UNCHANGED <<partVars, orchVars, roaVars, store, recVars, fetchVars>>

\* ------------------------------------------------------------------------
\* syncData, afterSyncData, removeLocalItems

\* the third argument of syncData in sync, for the first and the second pass
EnableSyncUserItemAccess(p) == FALSE

\* the done callback of removeLocalItems in afterSyncData; the resolve of the
\* deferred of syncData is in AfterSyncData
AfterRemoveLocalItems(p, acc) ==
    IF EnableSyncUserItemAccess(p)
    THEN SyncUserItemAccess(acc)
    ELSE UNCHANGED accVars

GetServerItemIdsDone ==
    /\ pc = "getServerItemIds"
    /\ localIds' = [localIds EXCEPT ![CurPass] = GetServerItemIds]
    /\ Await("syncData")
    /\ UNCHANGED <<partVars, roaVars, store, rmList, rmIdx, rmLog, userAccess, fetchVars, accVars>>

GetServerItemIdsFail ==
    /\ pc = "getServerItemIds"
    /\ RejectPhase(SyncDataPhase(CurPass), "getServerItemIds")
    /\ UNCHANGED <<partVars, roaVars, store, recVars, fetchVars, accVars>>

\* variant: a non-empty removal list fails the reconciliation call
AfterSyncDataFailsOnRemoval(p, ids, acc) ==
    /\ rmList' = [rmList EXCEPT ![p] = ids]
    /\ userAccess' = IF p = 2 THEN acc ELSE userAccess
    /\ rmIdx' = [rmIdx EXCEPT ![p] = 1]
    /\ UNCHANGED accVars
    /\ IF ids = <<>>
       THEN ResolvePhase(SyncDataPhase(p))
       ELSE RejectPhase(SyncDataPhase(p), "removeLocalItem")

\* afterSyncData: removeLocalItems starts the removal chain, whose done
\* callback runs at once for an empty list, and the last statement resolves
\* the deferred of syncData whatever the chain is doing
AfterSyncData(p, ids, acc) ==
    /\ rmList' = [rmList EXCEPT ![p] = ids]
    /\ userAccess' = IF p = 2 THEN acc ELSE userAccess
    /\ rmIdx' = [rmIdx EXCEPT ![p] = 1]
    /\ IF ids = <<>> THEN AfterRemoveLocalItems(p, acc) ELSE UNCHANGED accVars
    /\ ResolvePhase(SyncDataPhase(p))

SyncDataDone ==
    /\ pc = "syncData"
    /\ \E ids \in RemoveLists, acc \in AccessMaps : AfterSyncData(CurPass, ids, acc)
    /\ UNCHANGED <<partVars, roaVars, store, localIds, rmLog, fetchVars>>

SyncDataFail ==
    /\ pc = "syncData"
    /\ RejectPhase(SyncDataPhase(CurPass), "syncData")
    /\ UNCHANGED <<partVars, roaVars, store, recVars, fetchVars, accVars>>

RemovalPending(p) == rmIdx[p] \in 1..Len(rmList[p])

RemovalFinished(p) == rmIdx[p] = Len(rmList[p]) + 1

\* removeNextLocalItem(itemIdsToRemove, index + 1, ...), called from done and
\* from fail; at the end of the list the deferred of removeLocalItems is
\* resolved, and its done callback finds the deferred of syncData resolved
RemoveNextLocalItem(p, outcome) ==
    /\ rmLog' = [rmLog EXCEPT ![p] = Append(@, outcome)]
    /\ rmIdx' = [rmIdx EXCEPT ![p] = @ + 1]
    /\ IF rmIdx[p] = Len(rmList[p])
       THEN AfterRemoveLocalItems(p, userAccess)
       ELSE UNCHANGED accVars

RemoveLocalItemDone(p) ==
    /\ RemovalPending(p)
    /\ store' = RemoveLocalItem(store, rmList[p][rmIdx[p]])
    /\ RemoveNextLocalItem(p, "ok")
    /\ UNCHANGED <<partVars, orchVars, roaVars, localIds, rmList, userAccess, fetchVars>>

\* variant: a failed removal ends the chain
RemoveLocalItemFailStops(p) ==
    /\ RemovalPending(p)
    /\ rmLog' = [rmLog EXCEPT ![p] = Append(@, "fail")]
    /\ rmIdx' = [rmIdx EXCEPT ![p] = Len(rmList[p]) + 1]
    /\ UNCHANGED <<partVars, orchVars, roaVars, store, localIds, rmList, userAccess, fetchVars,
                   accVars>>

RemoveLocalItemFail(p) ==
    /\ RemovalPending(p)
    /\ RemoveNextLocalItem(p, "fail")
    /\ UNCHANGED <<partVars, orchVars, roaVars, store, localIds, rmList, userAccess, fetchVars>>

\* ------------------------------------------------------------------------
\* getNewMedia

\* getNextNewItem(jobItems, index, ...) with the 1-based index i; the local
\* item of a job item exists from the done callback of createLocalItem on
GetNextNewItem(items, i) ==
    /\ jobIdx' = i
    /\ localItem' = NoLocalItem
    /\ IF i > Len(items)
       THEN ResolvePhase("getNewMedia")
       ELSE Await("createLocalItem")

GetReadySyncItemsDone ==
    /\ pc = "getReadySyncItems"
    /\ \E items \in JobLists :
          /\ jobItems' = items
          /\ GetNextNewItem(items, 1)
    /\ UNCHANGED <<partVars, roaVars, store, recVars, fetchedIds, imgSlots, transferred,
                   accVars>>

GetReadySyncItemsFail ==
    /\ pc = "getReadySyncItems"
    /\ RejectPhase("getNewMedia", "getReadySyncItems")
    /\ UNCHANGED <<partVars, roaVars, store, recVars, fetchVars, accVars>>

\* variant: the failure of a job item rejects the deferred of getNewMedia
GetNewItemFailRejects ==
    /\ jobIdx' = jobIdx
    /\ localItem' = localItem
    /\ transferred' = transferred
    /\ RejectPhase("getNewMedia", "getNewItem")

\* variant: the fail callback reports the job item as transferred and goes on
GetNewItemFailReports ==
    /\ transferred' = Append(transferred, jobIdx)
    /\ GetNextNewItem(jobItems, jobIdx + 1)

\* the deferred of getNewItem is rejected: the fail callback of getNextNewItem
GetNewItemFail ==
    /\ transferred' = transferred
    /\ GetNextNewItem(jobItems, jobIdx + 1)

CreateLocalItemDone ==
    /\ pc = "createLocalItem"
    /\ localItem' = CreateLocalItem(jobItems[jobIdx].Id)
    /\ Await("downloadFile")
    /\ UNCHANGED <<partVars, roaVars, store, recVars, jobItems, jobIdx, fetchedIds, imgSlots,
                   transferred, accVars>>

CreateLocalItemFail ==
    /\ pc = "createLocalItem"
    /\ GetNewItemFail
    /\ UNCHANGED <<partVars, roaVars, store, recVars, jobItems, fetchedIds, imgSlots,
                   accVars>>

DownloadFileDone ==
    /\ pc = "downloadFile"
    /\ Await("addOrUpdateLocalItem")
    /\ UNCHANGED <<partVars, roaVars, store, recVars, fetchVars, accVars>>

DownloadFileFail ==
    /\ pc = "downloadFile"
    /\ GetNewItemFail
    /\ UNCHANGED <<partVars, roaVars, store, recVars, jobItems, fetchedIds, imgSlots,
                   accVars>>

\* getNextImage(0, ...) reads `item`, which no scope of the file declares: the
\* ReferenceError leaves the done callback, and the deferreds of getImages and
\* of getNewItem are never settled
GetNextImage(index) ==
    /\ imgSlots' = imgSlots
    /\ Await("thrown")

\* downloadMedia resolves and the done callback of getNewItem calls getImages
AddOrUpdateLocalItemDone ==
    /\ pc = "addOrUpdateLocalItem"
    /\ store' = AddOrUpdateLocalItem(store, localItem)
    /\ fetchedIds' = fetchedIds \cup {localItem.Id}
    /\ GetNextImage(0)
    /\ UNCHANGED <<partVars, roaVars, recVars, jobItems, jobIdx, localItem, transferred, accVars>>

AddOrUpdateLocalItemFail ==
    /\ pc = "addOrUpdateLocalItem"
    /\ GetNewItemFail
    /\ UNCHANGED <<partVars, roaVars, store, recVars, jobItems, fetchedIds, imgSlots,
                   accVars>>

\* ------------------------------------------------------------------------

Next ==
    \/ Sync
    \/ GetOfflineActionsDone
    \/ GetOfflineActionsFail
    \/ ReportOfflineActionsDone
    \/ ReportOfflineActionsFail
    \/ DeleteOfflineActionsDone
    \/ DeleteOfflineActionsFail
    \/ GetServerItemIdsDone
    \/ GetServerItemIdsFail
    \/ SyncDataDone
    \/ SyncDataFail
    \/ \E p \in 1..2 : RemoveLocalItemDone(p)
    \/ \E p \in 1..2 : RemoveLocalItemFail(p)
    \/ GetReadySyncItemsDone
    \/ GetReadySyncItemsFail
    \/ CreateLocalItemDone
    \/ CreateLocalItemFail
    \/ DownloadFileDone
    \/ DownloadFileFail
    \/ AddOrUpdateLocalItemDone
    \/ AddOrUpdateLocalItemFail

Spec == Init /\ [][Next]_vars

\* ------------------------------------------------------------------------
\* downloadImage

DownloadImageCall ==
    /\ imgState \in {"idle", "resolved", "rejected"}
    /\ imgCalls < MaxCalls
    /\ \E key \in ImageKeys : imgArg' = key
    /\ imgState' = "hasImage"
    /\ imgCalls' = imgCalls + 1
    /\ UNCHANGED <<orchVars, roaVars, store, recVars, fetchVars, accVars, chVars, subItem, subState, images,
                   imgDownloads>>

\* variant: the image is downloaded whatever hasImage answers
HasImageDoneDownloads ==
    /\ imgState = "hasImage"
    /\ imgDownloads' = Append(imgDownloads, imgArg)
    /\ imgState' = "downloadImage"
    /\ UNCHANGED <<orchVars, roaVars, store, recVars, fetchVars, accVars, chVars, subItem, subState, images,
                   imgArg, imgCalls>>

\* the done callback of LocalAssetManager.hasImage
HasImageDone ==
    /\ imgState = "hasImage"
    /\ IF HasImage(images, imgArg)
       THEN /\ imgState' = "resolved"
            /\ imgDownloads' = imgDownloads
       ELSE /\ imgDownloads' = Append(imgDownloads, imgArg)
            /\ imgState' = "downloadImage"
    /\ UNCHANGED <<orchVars, roaVars, store, recVars, fetchVars, accVars, chVars, subItem, subState, images,
                   imgArg, imgCalls>>

\* hasImage has no fail callback: the deferred of downloadImage stays pending
HasImageFail ==
    /\ imgState = "hasImage"
    /\ imgState' = "pending"
    /\ UNCHANGED <<orchVars, roaVars, store, recVars, fetchVars, accVars, chVars, subItem, subState, images,
                   imgArg, imgDownloads, imgCalls>>

LocalDownloadImageDone ==
    /\ imgState = "downloadImage"
    /\ images' = StoreImage(images, imgArg)
    /\ imgState' = "resolved"
    /\ UNCHANGED <<orchVars, roaVars, store, recVars, fetchVars, accVars, chVars, subItem, subState, imgArg,
                   imgDownloads, imgCalls>>

LocalDownloadImageFail ==
    /\ imgState = "downloadImage"
    /\ imgState' = "rejected"
    /\ UNCHANGED <<orchVars, roaVars, store, recVars, fetchVars, accVars, chVars, subItem, subState, images,
                   imgArg, imgDownloads, imgCalls>>

\* ------------------------------------------------------------------------
\* getSubtitles

\* getSubtitles hands its body to require and returns its promise
GetSubtitlesCall ==
    /\ subState = "idle"
    /\ \E job \in SubtitleJobs : subItem' = job
    /\ subState' = "require"
    /\ UNCHANGED <<orchVars, roaVars, store, recVars, fetchVars, accVars, chVars, images,
                   imgArg, imgState, imgDownloads, imgCalls>>

\* getNextSubtitle(files, index, ...) with the 0-based index: at the end of
\* the list it reads `deferred`, before the end it reads `file`; neither is a
\* parameter or a variable of an enclosing scope, so both raise ReferenceError
GetNextSubtitle(files, index) ==
    IF index >= Len(files)
    THEN subState' = "thrown"
    ELSE subState' = "thrown"

\* the require callback of getSubtitles: without media source it calls
\* logger.Error, and `logger` is not declared (the file logs through Logger),
\* so the ReferenceError comes before deferred.resolve()
GetSubtitlesRequire ==
    /\ subState = "require"
    /\ IF subItem.MediaSources = 0
       THEN subState' = "thrown"
       ELSE GetNextSubtitle(subItem.Files, 0)
    /\ UNCHANGED <<orchVars, roaVars, store, recVars, fetchVars, accVars, chVars, images,
                   imgArg, imgState, imgDownloads, imgCalls, subItem>>

\* the steps of a job item on their own: every image store, every argument
InitParts ==
    /\ InitSync
    /\ NoChapterCall
    /\ pc = "idle"
    /\ queue = {}
    /\ store = [id \in ItemIds |-> Absent]
    /\ userAccess = [id \in ItemIds |-> Absent]
    /\ images \in SUBSET ImageKeys

NextParts ==
    \/ DownloadImageCall
    \/ HasImageDone
    \/ HasImageFail
    \/ LocalDownloadImageDone
    \/ LocalDownloadImageFail
    \/ GetSubtitlesCall
    \/ GetSubtitlesRequire

SpecParts == InitParts /\ [][NextParts]_vars

\* ------------------------------------------------------------------------
\* RefreshChapterImages


mediaSyncVars ==
    <<orchVars, roaVars, store, recVars, fetchVars, accVars, images, imgArg, imgState,
      imgDownloads, imgCalls, subItem, subState>>

\* extractImages after the eligibility test
ExtractImages == chOptions.ExtractImages /\ chOptions.Eligible

\* the loop is at a chapter that lies within the run time
InRunTime == chapters[chIdx].StartPositionTicks < chOptions.RunTimeTicks

\* the loop is at a chapter whose image is to be extracted
ToExtract ==
    /\ InRunTime
    /\ ChapterImagePath(chapters[chIdx].StartPositionTicks) \notin currentImages
    /\ ExtractImages
    /\ ~chOptions.Disc

LogChapter(what) == chLog' = Append(chLog, [Index |-> chIdx, What |-> what])

\* DeleteDeadImages: the files found at the beginning that are the ImagePath
\* of no chapter are deleted; a deletion that fails with an IOException
\* leaves its file
DeleteDeadImages(fs, chs) ==
    LET dead == currentImages \ {chs[i].ImagePath : i \in 1..Len(chs)}
    IN  \E kept \in SUBSET dead : imageFiles' = fs \ (dead \ kept)

\* DeleteDeadImages and return success
Return(chs, succ, fs) ==
    /\ DeleteDeadImages(fs, chs)
    /\ chState' = "done"
    /\ chResult' = IF succ THEN "true" ELSE "false"

\* the statements after the loop
AfterLoop(chs, changed, succ, fs) ==
    /\ chapters' = chs
    /\ changesMade' = changed
    /\ chSuccess' = succ
    /\ IF chOptions.SaveChapters /\ changed
       THEN /\ chState' = "SaveChapters"
            /\ imageFiles' = fs
            /\ chResult' = chResult
       ELSE Return(chs, succ, fs)

\* the foreach loop goes to the chapter i, or ends behind the last one
NextChapter(i, chs, changed, fs) ==
    /\ chIdx' = i
    /\ IF i > Len(chs)
       THEN AfterLoop(chs, changed, chSuccess, fs)
       ELSE /\ chapters' = chs
            /\ changesMade' = changed
            /\ chSuccess' = chSuccess
            /\ chState' = "loop"
            /\ imageFiles' = fs
            /\ chResult' = chResult

RefreshChapterImagesCall ==
    /\ chState = "idle"
    /\ currentImages' = imageFiles
    /\ NextChapter(1, chapters, FALSE, imageFiles)
    /\ UNCHANGED <<mediaSyncVars, chOptions, chInput, chLog>>

\* a chapter at or beyond the run time ends the loop
ChapterBeyondRunTime ==
    /\ chState = "loop"
    /\ ~InRunTime
    /\ LogChapter("beyond")
    /\ chIdx' = chIdx
    /\ AfterLoop(chapters, changesMade, chSuccess, imageFiles)
    /\ UNCHANGED <<mediaSyncVars, chOptions, chInput, currentImages>>

\* the ImagePath an iteration without extraction leaves in the chapter
PathWithoutExtraction(chapter) ==
    LET path == ChapterImagePath(chapter.StartPositionTicks)
    IN  IF path \notin currentImages
        THEN IF ExtractImages THEN chapter.ImagePath ELSE NoPath
        ELSE path

\* an iteration that extracts nothing: the chapter of a disc image is passed
\* over, a path without file is cleared, the path of a file found is taken
ChapterNoExtraction ==
    /\ chState = "loop"
    /\ InRunTime
    /\ ~ToExtract
    /\ LogChapter("kept")
    /\ LET path == PathWithoutExtraction(chapters[chIdx])
       IN  NextChapter(chIdx + 1, [chapters EXCEPT ![chIdx].ImagePath = path],
                       changesMade \/ path # chapters[chIdx].ImagePath, imageFiles)
    /\ UNCHANGED <<mediaSyncVars, chOptions, chInput, currentImages>>

\* the extraction succeeds: the file is written and the chapter gets its path
ChapterExtractionDone ==
    /\ chState = "loop"
    /\ ToExtract
    /\ LogChapter("extracted")
    /\ LET path == ChapterImagePath(chapters[chIdx].StartPositionTicks)
       IN  NextChapter(chIdx + 1, [chapters EXCEPT ![chIdx].ImagePath = path], TRUE,
                       imageFiles \cup {path})
    /\ UNCHANGED <<mediaSyncVars, chOptions, chInput, currentImages>>

\* variant: after the exception the loop goes on with the next chapter
ChapterExtractionFailGoesOn ==
    /\ chState = "loop"
    /\ ToExtract
    /\ LogChapter("failed")
    /\ NextChapter(chIdx + 1, chapters, changesMade, imageFiles)
    /\ UNCHANGED <<mediaSyncVars, chOptions, chInput, currentImages>>

\* an exception in the try block: success = false and break; the file may
\* have been created before the exception
ChapterExtractionFail ==
    /\ chState = "loop"
    /\ ToExtract
    /\ LogChapter("failed")
    /\ chIdx' = chIdx
    /\ \E fs \in {imageFiles,
                  imageFiles \cup {ChapterImagePath(chapters[chIdx].StartPositionTicks)}} :
          AfterLoop(chapters, changesMade, FALSE, fs)
    /\ UNCHANGED <<mediaSyncVars, chOptions, chInput, currentImages>>

SaveChaptersDone ==
    /\ chState = "SaveChapters"
    /\ Return(chapters, chSuccess, imageFiles)
    /\ UNCHANGED <<mediaSyncVars, chOptions, chInput, chapters, chIdx, chSuccess,
                   changesMade, currentImages, chLog>>

\* an exception of SaveChapters leaves RefreshChapterImages
SaveChaptersFail ==
    /\ chState = "SaveChapters"
    /\ chState' = "threw"
    /\ chResult' = "threw"
    /\ UNCHANGED <<mediaSyncVars, chOptions, chInput, chapters, chIdx, chSuccess,
                   changesMade, currentImages, imageFiles, chLog>>

\* RefreshChapterImages for every video, chapter list and chapters directory
InitChapters ==
    /\ InitSync
    /\ pc = "idle"
    /\ queue = {}
    /\ store = [id \in ItemIds |-> Absent]
    /\ userAccess = [id \in ItemIds |-> Absent]
    /\ images = {}
    /\ chOptions \in ChapterOptions
    /\ chInput \in ChapterLists
    /\ chapters = chInput
    /\ imageFiles \in SUBSET {ChapterImagePath(t) : t \in Ticks}

NextChapters ==
    \/ RefreshChapterImagesCall
    \/ ChapterBeyondRunTime
    \/ ChapterNoExtraction
    \/ ChapterExtractionDone
    \/ ChapterExtractionFail
    \/ SaveChaptersDone
    \/ SaveChaptersFail

SpecChapters == InitChapters /\ [][NextChapters]_vars

\* reportOfflineActions of a run, for every queue, while the application may

\* queue an offline action at any moment
InitOffline ==
    /\ InitSync
    /\ NoChapterCall
    /\ pc = "idle"
    /\ queue \in SUBSET Actions
    /\ store \in [ItemIds -> {Absent, <<"u1", "u2">>}]
    /\ userAccess = [id \in ItemIds |-> Absent]
    /\ images = {}

NextOffline ==
    \/ Sync
    \/ GetOfflineActionsDone
    \/ GetOfflineActionsFail
    \/ ReportOfflineActionsDone
    \/ ReportOfflineActionsFail
    \/ DeleteOfflineActionsDone
    \/ DeleteOfflineActionsFail
    \/ EnqueueOfflineAction

SpecOffline == InitOffline /\ [][NextOffline]_vars

\* syncUserItemAccess on its own: every local store and every ItemUserAccess
InitAccess ==
    /\ InitSync
    /\ NoChapterCall
    /\ images = {}
    /\ pc = "idle"
    /\ queue = {}
    /\ store \in [ItemIds -> {Absent} \cup AccessLists]
    /\ userAccess \in [ItemIds -> {Absent} \cup AccessLists]

NextAccess ==
    \/ SyncUserItemAccessCall
    \/ SyncUserAccessForItemRequire

SpecAccess == InitAccess /\ [][NextAccess]_vars

\* ------------------------------------------------------------------------
\* Properties

SetOf(list) == Range(list)

\* C1: the four phases start in the order reportOfflineActions, syncData
\* (pass 1), getNewMedia, syncData (pass 2); a phase is started only when the
\* deferred of the phase before it is resolved; a run that resolves has
\* started each phase once
C1_PhaseOrder ==
    /\ Len(started) <= Len(Phases)
    /\ \A i \in 1..Len(started) : started[i] = Phases[i]
    /\ \A i \in 2..Len(started) : phaseP[started[i - 1]] = "resolved"
    /\ \A i \in 1..Len(Phases) : (phaseP[Phases[i]] # "none") <=> (i <= Len(started))
    /\ syncP = "resolved" => started = Phases

C1_Witness == syncP = "resolved" /\ started = Phases /\ Len(jobItems) > 0

\* C2: when a phase rejects, no later phase is started and the deferred of
\* sync is rejected; the deferred of sync is resolved only when the four
\* phases are resolved
C2_FailureAborts ==
    /\ \A i \in 1..Len(Phases) :
          phaseP[Phases[i]] = "rejected" =>
             /\ syncP = "rejected"
             /\ \A j \in (i + 1)..Len(Phases) : phaseP[Phases[j]] = "none"
    /\ syncP = "resolved" => \A i \in 1..Len(Phases) : phaseP[Phases[i]] = "resolved"

C2_Witness == phaseP["getNewMedia"] = "rejected" /\ syncP = "rejected"

\* no call on the local store failed in the run: the removals succeeded, and
\* no job item was given up (a run resolves only when every job item failed
\* in createLocalItem, downloadFile or addOrUpdateLocalItem)
NoStoreCallFailed ==
    /\ jobItems = <<>>
    /\ \A p \in 1..2 : "fail" \notin Range(rmLog[p])

\* C3: when sync resolves and no call on the local store failed, every local
\* item with an entry in the ItemUserAccess of the second pass has the
\* UserIdsWithAccess the server reported
C3_AccessPropagated ==
    (syncP = "resolved" /\ NoStoreCallFailed) =>
        \A id \in ItemIds :
            (userAccess[id] # Absent /\ store[id] # Absent) => store[id] = userAccess[id]

\* C4: deleteOfflineActions is called only with a batch whose upload
\* succeeded; after a failed upload the queue is as it was read, nothing was
\* deleted, and reportOfflineActions and sync are rejected
C4_DeleteAfterUpload ==
    /\ \A i \in 1..Len(deleted) :
          \E j \in 1..Len(uploads) : uploads[j].ok /\ uploads[j].batch = deleted[i]
    /\ \A j \in 1..Len(uploads) :
          ~uploads[j].ok =>
             /\ uploads[j].batch # {}
             /\ queue = uploads[j].batch
             /\ deleted = <<>>
             /\ phaseP["reportOfflineActions"] = "rejected"
             /\ syncP = "rejected"

C4_Witness == \E j \in 1..Len(uploads) : ~uploads[j].ok

\* C5: the deferred of syncData is resolved only when every removal of the
\* pass has settled, and getNewMedia is not started while a removal of the
\* first pass is outstanding
C5_SyncDataWaitsForRemovals ==
    /\ \A p \in 1..2 : phaseP[SyncDataPhase(p)] = "resolved" => RemovalFinished(p)
    /\ phaseP["getNewMedia"] # "none" => RemovalFinished(1)

\* the effect of the removal attempts of a step on the local store
RemovalStep ==
    \A p \in 1..2 :
        (rmIdx[p] >= 1 /\ rmIdx'[p] # rmIdx[p]) =>
            /\ rmIdx'[p] = rmIdx[p] + 1
            /\ Len(rmLog'[p]) = rmIdx[p]
            /\ LET id == rmList[p][rmIdx[p]]
               IN  IF rmLog'[p][rmIdx[p]] = "ok"
                   THEN store'[id] = Absent
                   ELSE store'[id] = store[id]

\* C6: whatever removals fail, a removal is attempted for every id of
\* ItemIdsToRemove, an id whose removal succeeds leaves the local store, an id
\* whose removal fails stays as it was, and syncData does not reject
C6_RemovalIsolation ==
    /\ [](\A p \in 1..2 :
            /\ RemovalFinished(p) => Len(rmLog[p]) = Len(rmList[p])
            /\ rmIdx[p] >= 1 => phaseP[SyncDataPhase(p)] = "resolved")
    /\ [][RemovalStep]_vars

C6_Witness ==
    \E p \in 1..2 :
        /\ RemovalFinished(p)
        /\ rmLog[p] = <<"fail", "ok">>
        /\ store[rmList[p][1]] # Absent
        /\ store[rmList[p][2]] = Absent

\* C7 as stated: syncData rejects only if the reconciliation request
\* apiClient.syncData fails
C7_RejectsOnlyOnRequestFailure ==
    \A p \in 1..2 : phaseP[SyncDataPhase(p)] = "rejected" => failedCall = "syncData"

\* C7 amended: syncData rejects only if the enumeration of the local item ids
\* or the reconciliation request fails, before any removal of the pass; a
\* failed removal leaves the deferred of syncData resolved
C7_RejectsOnlyBeforeSubPhases ==
    \A p \in 1..2 :
        /\ phaseP[SyncDataPhase(p)] = "rejected" =>
              /\ failedCall \in {"getServerItemIds", "syncData"}
              /\ rmIdx[p] = 0
        /\ "fail" \in Range(rmLog[p]) => phaseP[SyncDataPhase(p)] = "resolved"

C7_Witness ==
    /\ phaseP["syncData2"] = "rejected"
    /\ failedCall = "getServerItemIds"
    /\ "fail" \in Range(rmLog[1])

\* syncUserAccessForItem has run for the i-th key of ItemUserAccess
AccessItemDone(i) ==
    \/ i < accIdx
    \/ i = accIdx /\ accState \in {"thrown", "resolved"}

\* C8: syncUserAccessForItem calls addOrUpdateLocalItem for a local item
\* exactly when its stored UserIdsWithAccess and the list of the server
\* differ as sets
C8_WriteIffSetsDiffer ==
    \A i \in 1..Len(accIds) :
        (AccessItemDone(i) /\ store[accIds[i]] # Absent) =>
            ((accIds[i] \in Range(accWrites))
                <=> (SetOf(store[accIds[i]]) # SetOf(userAccess[accIds[i]])))

\* C9: a failure of createLocalItem or of the media download of a job item
\* does not reject getNewMedia, and every job item of the list is started:
\* when no call of the run is outstanding, no job item is left
C9_EveryJobItemStarted ==
    /\ phaseP["getNewMedia"] = "rejected" => jobIdx = 0
    /\ (pc \in {"done", "thrown"} /\ phaseP["getNewMedia"] # "rejected") =>
          jobIdx >= Len(jobItems)

\* C10 as stated: getNewMedia does not reject, whatever the outcome of the
\* request of the ready items and of the steps of the job items
C10_FetchNeverRejects == phaseP["getNewMedia"] # "rejected"

\* C10 amended: getNewMedia rejects only when the request of the ready items
\* fails; no outcome of a step of a job item rejects it, and when it resolves
\* the second reconciliation pass is started
C10_FetchRejectsOnlyOnListFailure ==
    /\ phaseP["getNewMedia"] = "rejected" =>
          /\ failedCall = "getReadySyncItems"
          /\ jobIdx = 0
    /\ phaseP["getNewMedia"] = "resolved" =>
          /\ jobIdx = Len(jobItems) + 1
          /\ phaseP["syncData2"] # "none"

C10_Witness ==
    /\ phaseP["getNewMedia"] = "resolved"
    /\ Len(jobItems) = MaxJobs
    /\ phaseP["syncData2"] = "pending"

\* the calls the chain of a job item waits for before its images step
ItemMediaCalls == {"createLocalItem", "downloadFile", "addOrUpdateLocalItem"}

\* a step that calls apiClient.reportSyncJobItemTransferred: it reports the
\* job item in progress, not reported before, and it is the completion of the
\* subtitles step, which getNewItem starts after the images step, the images
\* step after downloadMedia and downloadMedia after createLocalItem
TransferStep ==
    transferred' # transferred =>
        /\ transferred' = Append(transferred, jobIdx)
        /\ jobIdx \notin Range(transferred)
        /\ pc = "getSubtitles"

ImagesStarted ==
    /\ jobIdx \in 1..Len(jobItems)
    /\ pc \notin ItemMediaCalls

\* C12: once getImages is called for a job item the image slots are evaluated
\* in the order 0, 1, 2, 3 starting with slot 0 (the evaluation ends at the
\* first slot without source identity or after slot 3, and a download is
\* attempted only for an evaluated slot with identity and tag)
C12_SlotsInOrder ==
    ImagesStarted =>
        /\ imgSlots # <<>>
        /\ Len(imgSlots) <= 4
        /\ \A i \in 1..Len(imgSlots) : imgSlots[i] = i - 1

\* a step that calls LocalAssetManager.downloadImage does so for a triple the
\* local store does not hold
ImageDownloadStep ==
    imgDownloads' # imgDownloads =>
        /\ imgDownloads' = Append(imgDownloads, imgArg)
        /\ ~HasImage(images, imgArg)

InFlight ==
    (IF pc \in {"idle", "done", "thrown"} THEN 0 ELSE 1)
        + (IF RemovalPending(1) THEN 1 ELSE 0)
        + (IF RemovalPending(2) THEN 1 ELSE 0)

\* the phase a removal chain belongs to is the phase in progress
RemovalInOwnPhase(p) ==
    RemovalPending(p) =>
        /\ started[Len(started)] = SyncDataPhase(p)
        /\ phaseP[SyncDataPhase(p)] = "pending"

\* C14: at most one call on the local store or the server is outstanding at
\* any time, and a removal is outstanding only within its own reconciliation
\* pass, never while another phase runs
C14_OneOperationInFlight ==
    /\ InFlight <= 1
    /\ \A p \in 1..2 : RemovalInOwnPhase(p)

\* no call of the run is outstanding and no callback is left to run
Quiescent == pc # "idle" /\ InFlight = 0

\* C15: every call having succeeded or failed, the deferred of sync is
\* settled: a run with no call outstanding has resolved or rejected
C15_SyncSettles == Quiescent => syncP \in {"resolved", "rejected"}

\* C16: the images step does not stop a job item, whatever becomes of the
\* download of a slot: once getImages was called for the job item in progress
\* and no call is outstanding, the subtitles step and the transfer report
\* have run, so the job item is reported as transferred
C16_ImageFailureSwallowed ==
    (ImagesStarted /\ InFlight = 0) => jobIdx \in Range(transferred)

\* the call of getSubtitles has run as far as it goes
SubtitlesOver == subState \in {"thrown", "resolved"}

\* C17: a subtitle file whose index matches no subtitle stream of the first
\* media source does not stop the subtitles step: the remaining files are
\* processed and getSubtitles resolves, so the job item goes on to the
\* transfer report
C17_MissingStreamSwallowed ==
    (/\ SubtitlesOver
     /\ subItem.MediaSources > 0
     /\ \E i \in 1..Len(subItem.Files) : ~subItem.Files[i]) =>
        subState = "resolved"

\* C18: for a job item whose library item has no media source getSubtitles
\* resolves, so the job item goes on to the transfer report
C18_NoMediaSourceResolves ==
    (SubtitlesOver /\ subItem.MediaSources = 0) => subState = "resolved"

\* the queue was read by reportOfflineActions
QueueRead ==
    /\ phaseP["reportOfflineActions"] # "none"
    /\ pc # "getOfflineActions"
    /\ failedCall # "getOfflineActions"

\* a step in which apiClient.reportOfflineActions completes: it was called
\* with the whole queue as it is in the local store
UploadStep ==
    uploads' # uploads =>
        /\ pc = "reportOfflineActions"
        /\ uploads = <<>>
        /\ uploads'[1].batch = queue

\* C19: when the queue read is empty, reportOfflineActions resolves without a
\* call of apiClient.reportOfflineActions or deleteOfflineActions; when it is
\* not empty, the whole batch is uploaded in exactly one call
C19_OneUploadOfWholeBatch ==
    /\ [](/\ (QueueRead /\ batch = {}) =>
                /\ phaseP["reportOfflineActions"] = "resolved"
                /\ uploads = <<>>
                /\ deleted = <<>>
          /\ (QueueRead /\ batch # {} /\ pc # "reportOfflineActions") =>
                /\ Len(uploads) = 1
                /\ uploads[1].batch = batch
          /\ Len(uploads) <= 1)
    /\ [][UploadStep]_vars

\* a queue of two actions was uploaded in one call and the phase resolved
C19_Witness ==
    /\ phaseP["reportOfflineActions"] = "resolved"
    /\ Len(uploads) = 1
    /\ uploads[1].batch = Actions
    /\ queue = {}

\* the request of pass p was sent: getServerItemIds of the pass succeeded
RequestSent(p) ==
    /\ phaseP[SyncDataPhase(p)] # "none"
    /\ \/ CurPass > p
       \/ pc = "syncData"
       \/ rmIdx[p] >= 1
       \/ failedCall = "syncData"

\* the ids whose removal the first pass asked for and carried out
RemovedByPass1 == {rmList[1][i] : i \in {j \in 1..Len(rmLog[1]) : rmLog[1][j] = "ok"}}

\* a step in which getServerItemIds completes sends the ids the local store
\* holds at that time
RequestStep ==
    localIds' # localIds => localIds'[CurPass] = GetServerItemIds

\* C20: each pass sends as LocalItemIds the ids the local store holds when
\* the pass enumerates it; the request of the second pass holds every item
\* the fetch phase of the run persisted and no id the first pass was told to
\* remove and whose removal succeeded
C20_RequestReflectsStore ==
    /\ [](RequestSent(2) =>
            /\ fetchedIds \subseteq localIds[2]
            /\ RemovedByPass1 \cap localIds[2] = {})
    /\ [][RequestStep]_vars

\* the attempts of the removal chain of pass p so far are the first elements
\* of ItemIdsToRemove in order, one outcome each
RemovalsInOrder(p) ==
    rmIdx[p] >= 1 =>
        /\ rmIdx[p] <= Len(rmList[p]) + 1
        /\ Len(rmLog[p]) = rmIdx[p] - 1

\* C21: the elements of a batch are attempted once each in the order of the
\* list, whatever the outcome of the elements before: the removals of a pass
\* follow ItemIdsToRemove, and when no call is outstanding every removal of
\* a list received and every job item of the ready list has been attempted
C21_BatchElementsOnceInOrder ==
    /\ \A p \in 1..2 : RemovalsInOrder(p)
    /\ jobIdx <= Len(jobItems) + 1
    /\ Quiescent =>
          /\ \A p \in 1..2 : rmIdx[p] >= 1 => Len(rmLog[p]) = Len(rmList[p])
          /\ \A i \in 1..Len(jobItems) : i <= jobIdx

\* a step that takes offline actions out of the queue takes only actions of
\* the batch read, in the step that completes deleteOfflineActions after the
\* upload of that batch was acknowledged
DeleteStep ==
    (queue \ queue' # {}) =>
        /\ pc = "deleteOfflineActions"
        /\ (queue \ queue') \subseteq batch
        /\ \E j \in 1..Len(uploads) : uploads[j].ok /\ uploads[j].batch = batch

\* the queue is read once, by the first call of the phase
ReadStep == batch' # batch => pc = "getOfflineActions"

\* C22: the batch passed to deleteOfflineActions is the batch read at the
\* start of the phase and passed to apiClient.reportOfflineActions; no
\* offline action outside the acknowledged upload leaves the queue, and the
\* queue is not read again between upload and delete
C22_DeletesTheBatchUploaded ==
    /\ [](/\ \A i \in 1..Len(deleted) :
                /\ deleted[i] = batch
                /\ \E j \in 1..Len(uploads) : uploads[j].ok /\ uploads[j].batch = batch
          /\ \A j \in 1..Len(uploads) : uploads[j].batch = batch)
    /\ [][DeleteStep]_vars
    /\ [][ReadStep]_vars

\* an action queued during the upload is still queued after the batch of two
\* was uploaded and deleted
C22_Witness ==
    /\ phaseP["reportOfflineActions"] = "resolved"
    /\ deleted = <<Actions>>
    /\ batch = Actions
    /\ queue = LateActions

\* an extraction attempt of the call threw
ExtractionThrew == \E i \in 1..Len(chLog) : chLog[i].What = "failed"

\* C23: RefreshChapterImages returns false exactly when an extraction attempt
\* threw; the chapters are processed in order, the chapter whose extraction
\* throws and the first chapter at or beyond the run time are the last ones
\* processed, the latter without failure; a chapter whose image was extracted
\* before keeps its new ImagePath and a chapter not processed is untouched
C23_FalseIffExtractionThrew ==
    /\ \A i \in 1..Len(chLog) :
          /\ chLog[i].Index = i
          /\ chLog[i].What \in {"failed", "beyond"} =>
                /\ i = Len(chLog)
                /\ chState # "loop"
                /\ chapters[i] = chInput[i]
          /\ chLog[i].What = "beyond" <=>
                chInput[i].StartPositionTicks >= chOptions.RunTimeTicks
          /\ chLog[i].What = "extracted" =>
                chapters[i].ImagePath = ChapterImagePath(chInput[i].StartPositionTicks)
    /\ \A i \in (Len(chLog) + 1)..Len(chapters) : chapters[i] = chInput[i]
    /\ chSuccess <=> ~ExtractionThrew
    /\ chState = "done" =>
          /\ chResult \in {"true", "false"}
          /\ chResult = "false" <=> ExtractionThrew
    /\ chResult = "false" => chState = "done"

\* the image of the first chapter was extracted, the extraction of the second
\* threw, the third was not looked at, and the call returned false
C23_Witness ==
    /\ chState = "done"
    /\ chResult = "false"
    /\ Len(chapters) = 3
    /\ Len(chLog) = 2
    /\ chLog[1].What = "extracted"
    /\ chLog[2].What = "failed"
    /\ chapters[1].ImagePath # chInput[1].ImagePath

====
